---- MODULE Spec2Model ----
(***************************************************************************)
(* The vanilla-JS audit page (js/main.js): upload, analysis start, the     *)
(* self-rescheduling status poller checkAnalysisStatus, the results and    *)
(* file-list loaders, and the view / delete / retry handlers.              *)
(*                                                                         *)
(* The page runs on one event loop.  Every `await fetch(...)` suspends the *)
(* async function that issued it; the suspended activation is kept in the  *)
(* bag `calls` until its response (or failure) is delivered, which is one  *)
(* atomic step that runs the code up to the next await or the return.      *)
(* setTimeout callbacks that are scheduled and neither fired nor cleared   *)
(* are kept in `timers`.                                                   *)
(*                                                                         *)
(* The React application is modelled next to it: the FileUpload wizard     *)
(* (pages/FileUpload.jsx), which navigates to the AnomalyDashboard         *)
(* (components/analysis/AnomalyDashboard.jsx) with its setInterval poller. *)
(* A function component's handlers see the state of the render that        *)
(* created them; an activation keeps the value it captured.                *)
(* Further parts of the React application have specifications of their     *)
(* own: the API layer (services/api.js), the notifications of AppContext,  *)
(* the FileList page and processAnomalies.                                 *)
(***************************************************************************)
EXTENDS Integers, FiniteSets, Bags, Sequences, TLC

\* ------------------------------------------------------------ bounds
MaxFiles == 1           \* file ids the backend hands out: 1..MaxFiles
MaxJobs == 1            \* job ids the backend hands out: 1..MaxJobs
MaxCalls == 2           \* Spec: suspended activations plus pending timers
MaxCeilingCalls == 3    \* SpecCeiling: suspended activations plus pending timers
MaxRetryButtons == 2    \* retry buttons appended to the progress section
MaxOvershoot == 2       \* how far past the ceiling the attempt counter is followed
MaxPolls == 5           \* Spec: the backend stops answering "poll again" at this attempt count
MaxIntervals == 2       \* SpecSpa: analyses started in the dashboard (intervals created)
MaxDashCalls == 2       \* SpecSpa: suspended activations of the dashboard
MaxNotifications == 3   \* SpecNotify: notifications shown
MaxDuration == 3        \* SpecNotify: longest duration, in clock ticks
MaxListFiles == 6       \* SpecList: files on the backend when the list page opens
MatchCount == 2         \* SpecList: files 1..MatchCount have a name matching the search term
MaxAnomalies == 3       \* SpecAnomalies: longest list of anomalies received

\* ------------------------------------------------------------ program constants
MAX_STATUS_CHECK_ATTEMPTS == 120
MAX_CONSECUTIVE_ERRORS == 3

Null == 0               \* JS null (file id, job id, timer handle)
Undefined == -1         \* window.statusCheckErrorCount before its first use

Files == 1..MaxFiles
Jobs == 1..MaxJobs
TimerIds == 1..(MaxCalls + MaxCeilingCalls)

\* textContent of #status-message (accents dropped)
MsgInit == "Initialisation de l'analyse..."
MsgPending == "En attente de traitement..."
MsgProcessing == "Analyse en cours..."
MsgCompleted == "Analyse terminee!"
MsgTooMany == "Verification interrompue apres trop de tentatives"
MsgGenericError == "Une erreur s'est produite"
NoteStopped == " - Verifications arretees apres trop d'erreurs"
ErrPrefix == "Erreur: "

\* error.message of a failed status check, by the way it failed
FailKinds == {"http", "network", "malformed"}
StatusErrorText(kind) ==
    CASE kind = "http" -> "Erreur lors de la verification du statut: 500"
      [] kind = "network" -> "Failed to fetch"
      [] OTHER -> "Unexpected token in JSON"
ResultsErrorText == "Erreur lors du chargement des resultats: 500"

\* text of the alert() boxes
AlertNoFile == "Veuillez selectionner un fichier"
AlertUploadError == "Erreur: Erreur lors de l'upload: 500"
AlertStartError == "Erreur: Erreur lors du lancement de l'analyse: 500"
AlertDeleteError == "Erreur lors de la suppression: Erreur lors de la suppression: 500"

\* data.error of a `failed` payload; "" stands for a missing or empty field
PayloadErrors == {"", "X"}

VARIABLES
    currentFileId,          \* main.js:3
    currentJobId,           \* main.js:4
    statusCheckTimer,       \* main.js:5   handle of the last setTimeout, or Null
    statusCheckAttempts,    \* main.js:6
    statusCheckErrorCount,  \* window.statusCheckErrorCount
    timers,                 \* timer ids scheduled and neither fired nor cleared
    timerDelay,             \* delay each pending timer was scheduled with
    calls,                  \* bag of suspended async activations
    statusMessage,          \* #status-message textContent
    retryButtons,           \* number of retry buttons in #progress-section
    sections,               \* sections shown (without class d-none)
    analyzeBtnDisabled,     \* #analyze-btn disabled
    uploadBtnDisabled,      \* #upload-btn disabled
    listed,                 \* file ids with a row in #files-table
    ceilingHit,             \* history: an invocation exceeded the attempt ceiling and
                            \* neither resetAnalysisState nor an analysis start followed
    errorStreak,            \* history: status checks that failed since the last one that
                            \* was answered, counted up to MAX_CONSECUTIVE_ERRORS
    alertShown,             \* text of the alert() the last step showed, "" when none
                            \* (alert blocks the handler until it is dismissed)
    \* FileUpload.jsx
    wizFile,                \* file: a file is selected
    activeStep,             \* step of the wizard, 0..3
    wizLoading,             \* loading
    wizError,               \* error, "" for null
    uploadResult,           \* file_id of the upload result, or Null
    wizPending,             \* request the wizard awaits: "none", "upload", "start"
    route,                  \* page shown: "upload", "analysis" or "files"
    \* AnomalyDashboard.jsx
    dashLoading,            \* loading
    dashError,              \* error, "" for null
    activeJobId,
    jobStatus,              \* jobStatus.status, "none" for null
    pollingInterval,        \* state: id of the interval stored last, or Null
    intervals,              \* ids of the intervals set and not cleared
    intervalInfo,           \* per interval created: its job and the pollingInterval
                            \* value its callback's pollJobStatus captured
    dashCalls,              \* bag of suspended activations of the dashboard
    effectClos,             \* pollingInterval value the cleanup of the current effect captured
    \* services/api.js
    apiMethod,              \* service method called last, "none" before the first call
    apiPending,             \* its request is in flight
    apiResult,              \* how its promise settled
    \* AppContext
    notification,           \* the notification displayed, NoNotification for null
    notifTimers,            \* pending auto-close timers: creator and ticks left
    notifShown,             \* notifications shown so far
    \* FileList.jsx
    files,                  \* ids of the files in the list received last
    page,
    rowsPerPage,
    searchTerm,
    fileToDelete,           \* file of the open confirmation dialog, or Null
    listPending,            \* request the page awaits: "none", "files", "delete"
    serverFiles,            \* ids of the files the backend holds
    \* AnomalyDashboard.jsx, processAnomalies
    anomalies,              \* the list received last
    anomalyStats

vanillaVars == <<currentFileId, currentJobId, statusCheckTimer, statusCheckAttempts,
                 statusCheckErrorCount, timers, timerDelay, calls, statusMessage,
                 retryButtons, sections, analyzeBtnDisabled, uploadBtnDisabled, listed,
                 ceilingHit, errorStreak, alertShown>>
wizVars == <<wizFile, activeStep, wizLoading, wizError, uploadResult, wizPending>>
dashVars == <<dashLoading, dashError, activeJobId, jobStatus, pollingInterval,
              intervals, intervalInfo, dashCalls, effectClos>>
apiVars == <<apiMethod, apiPending, apiResult>>
notifVars == <<notification, notifTimers, notifShown>>
listVars == <<files, page, rowsPerPage, searchTerm, fileToDelete, listPending, serverFiles>>
anomVars == <<anomalies, anomalyStats>>
pageVars == <<apiVars, notifVars, listVars, anomVars>>
spaVars == <<wizVars, dashVars, route, pageVars>>
vars == <<vanillaVars, spaVars>>

pollVars == <<statusCheckTimer, statusCheckAttempts, statusCheckErrorCount,
              timers, timerDelay, statusMessage, ceilingHit>>
uiVars == <<retryButtons, sections, analyzeBtnDisabled, uploadBtnDisabled, listed>>

\* Messages of the React pages.
ApiErrorMessage == "Impossible de communiquer avec le serveur"
MsgFileNotFound == "Fichier introuvable"
MsgJobFailed == "L'analyse a echoue"

\* jobStatus.status: "none" for a null jobStatus, "other" for any other value.
DashStatuses == {"none", "pending", "processing", "completed", "failed", "other"}

\* Methods of analysisService and reportService.
ApiMethods ==
    {"uploadFile", "startAnalysis", "checkAnalysisStatus", "getAnalysisResults",
     "listFiles", "deleteFile", "generateReport", "checkReportStatus", "getReport"}

\* notification === null
NoNotification == [id |-> 0, duration |-> 0]

\* FileList: the options of the rows-per-page selector, and the search terms
\* tried ("" matches every name).
rowsPerPageOptions == {5, 10, 25}
SearchTerms == {"", "2024"}

\* Anomalies received: a type of the backend and a confidence score, kept in
\* hundredths (80 stands for 0.8).
AnomalyTypes == {"balance_mismatch", "duplicate_entry"}
Scores == {0, 49, 50, 79, 80, 100}
Anomalies == [type : AnomalyTypes, confidence_score : Scores]

\* anomalyStats of useState: nothing counted
EmptyStats ==
    [total |-> 0, byType |-> << >>, bySeverity |-> [high |-> 0, medium |-> 0, low |-> 0]]

\* ------------------------------------------------------------ helpers
Min(a, b) == IF a < b THEN a ELSE b

\* A suspended activation: the handler or function it belongs to (fn), the
\* request it awaits (pc), the job or file the request was issued for, and
\* whether resetAnalysisState ran since the request was issued (stale).
Call(fn, pc, job, file) ==
    [fn |-> fn, pc |-> pc, job |-> job, file |-> file, stale |-> FALSE]

Add(cs, c) == cs (+) SetToBag({c})
Remove(cs, c) == cs (-) SetToBag({c})
Replace(cs, c, d) == Add(Remove(cs, c), d)
Waiting(pc) == {c \in BagToSet(calls) : c.pc = pc}
Count(cs, pc) ==
    LET S == {c \in BagToSet(cs) : c.pc = pc}
        sum[T \in SUBSET S] ==
            IF T = {} THEN 0
            ELSE LET c == CHOOSE x \in T : TRUE IN cs[c] + sum[T \ {c}]
    IN sum[S]

\* Marks the status requests in flight when resetAnalysisState runs.
MarkStale(cs) ==
    LET S == BagToSet(cs)
        mark(c) == IF c.pc = "status" THEN [c EXCEPT !.stale = TRUE] ELSE c
        T == {mark(c) : c \in S}
    IN [d \in T |-> LET P == {c \in S : mark(c) = d}
                        sum[Q \in SUBSET P] ==
                            IF Q = {} THEN 0
                            ELSE LET c == CHOOSE x \in Q : TRUE
                                 IN cs[c] + sum[Q \ {c}]
                    IN sum[P]]

\* Room for one more suspended activation (the model's bound on concurrency).
Room(max) == BagCardinality(calls) + Cardinality(timers) < max

TypeOK ==
    /\ currentFileId \in Files \cup {Null}
    /\ currentJobId \in Jobs \cup {Null}
    /\ statusCheckTimer \in TimerIds \cup {Null}
    /\ statusCheckAttempts \in 0..(MAX_STATUS_CHECK_ATTEMPTS + MaxOvershoot + MaxCalls)
    /\ statusCheckErrorCount \in {Undefined} \cup 0..(MAX_CONSECUTIVE_ERRORS - 1)
    /\ timers \subseteq TimerIds
    /\ DOMAIN timerDelay = timers
    /\ IsABag(calls)
    /\ BagCardinality(calls) + Cardinality(timers) <= MaxCalls + MaxCeilingCalls
    /\ retryButtons \in 0..MaxRetryButtons
    /\ sections \subseteq {"upload", "analysis", "progress", "results"}
    /\ analyzeBtnDisabled \in BOOLEAN
    /\ uploadBtnDisabled \in BOOLEAN
    /\ listed \subseteq Files
    /\ ceilingHit \in BOOLEAN
    /\ errorStreak \in 0..MAX_CONSECUTIVE_ERRORS
    /\ alertShown \in {"", AlertNoFile, AlertUploadError, AlertStartError, AlertDeleteError}
    /\ wizFile \in BOOLEAN
    /\ activeStep \in 0..3
    /\ wizLoading \in BOOLEAN
    /\ wizError \in {"", ApiErrorMessage}
    /\ uploadResult \in Files \cup {Null}
    /\ wizPending \in {"none", "upload", "start"}
    /\ route \in {"upload", "analysis", "files"}
    /\ dashLoading \in BOOLEAN
    /\ dashError \in {"", ApiErrorMessage, MsgFileNotFound, MsgJobFailed}
    /\ activeJobId \in Jobs \cup {Null}
    /\ jobStatus \in DashStatuses
    /\ pollingInterval \in 0..MaxIntervals
    /\ intervals \subseteq DOMAIN intervalInfo
    /\ DOMAIN intervalInfo \subseteq 1..MaxIntervals
    /\ IsABag(dashCalls)
    /\ BagCardinality(dashCalls) <= MaxDashCalls
    /\ effectClos \in 0..MaxIntervals
    /\ apiMethod \in ApiMethods \cup {"none"}
    /\ apiPending \in BOOLEAN
    /\ apiResult.kind \in {"none", "resolved", "rejected"}
    /\ notification \in [id : 0..MaxNotifications, duration : 0..MaxDuration]
    /\ notifTimers \subseteq [id : 1..MaxNotifications, left : 0..MaxDuration]
    /\ notifShown \in 0..MaxNotifications
    /\ files \subseteq 1..MaxListFiles
    /\ page \in 0..MaxListFiles
    /\ rowsPerPage \in rowsPerPageOptions
    /\ searchTerm \in SearchTerms
    /\ fileToDelete \in 0..MaxListFiles
    /\ listPending \in {"none", "files", "delete"}
    /\ serverFiles \subseteq 1..MaxListFiles
    /\ Len(anomalies) <= MaxAnomalies
    /\ \A i \in 1..Len(anomalies) : anomalies[i] \in Anomalies
    /\ anomalyStats.total \in 0..MaxAnomalies

\* State after the script has run and DOMContentLoaded has called
\* loadRecentFiles, whose request is in flight.
Init ==
    /\ currentFileId = Null
    /\ currentJobId = Null
    /\ statusCheckTimer = Null
    /\ statusCheckAttempts = 0
    /\ statusCheckErrorCount = Undefined
    /\ timers = {}
    /\ timerDelay = << >>
    /\ calls = SetToBag({Call("DOMContentLoaded", "files", Null, Null)})
    /\ statusMessage = MsgInit
    /\ retryButtons = 0
    /\ sections = {"upload"}
    /\ analyzeBtnDisabled = FALSE
    /\ uploadBtnDisabled = FALSE
    /\ listed = {}
    /\ ceilingHit = FALSE
    /\ errorStreak = 0
    /\ alertShown = ""
    /\ wizFile = FALSE
    /\ activeStep = 0
    /\ wizLoading = FALSE
    /\ wizError = ""
    /\ uploadResult = Null
    /\ wizPending = "none"
    /\ route = "upload"
    /\ dashLoading = TRUE
    /\ dashError = ""
    /\ activeJobId = Null
    /\ jobStatus = "none"
    /\ pollingInterval = Null
    /\ intervals = {}
    /\ intervalInfo = << >>
    /\ dashCalls = EmptyBag
    /\ effectClos = Null
    /\ apiMethod = "none"
    /\ apiPending = FALSE
    /\ apiResult = [kind |-> "none"]
    /\ notification = NoNotification
    /\ notifTimers = {}
    /\ notifShown = 0
    /\ files = {}
    /\ page = 0
    /\ rowsPerPage = 10
    /\ searchTerm = ""
    /\ fileToDelete = Null
    /\ listPending = "files"
    /\ serverFiles = 1..MaxListFiles
    /\ anomalies = << >>
    /\ anomalyStats = EmptyStats


\* ------------------------------------------------------------ timers
Restrict(f, S) == [x \in S |-> f[x]]

\* The handle setTimeout returns: browsers never reuse the id of a pending
\* timer; the model takes the least id that is not pending.
NewTimer(tmrs) == CHOOSE t \in TimerIds \ tmrs : \A u \in TimerIds \ tmrs : t <= u

\* statusCheckTimer = setTimeout(checkAnalysisStatus, delay)
SetTimeout(delay) ==
    LET t == NewTimer(timers) IN
    /\ timers' = timers \cup {t}
    /\ timerDelay' = [u \in timers \cup {t} |-> IF u = t THEN delay ELSE timerDelay[u]]
    /\ statusCheckTimer' = t

\* if (statusCheckTimer) { clearTimeout(statusCheckTimer); statusCheckTimer = null; }
ClearStatusCheckTimer(tmrs) ==
    /\ timers' = tmrs \ {statusCheckTimer}
    /\ timerDelay' = Restrict(timerDelay, tmrs \ {statusCheckTimer})
    /\ statusCheckTimer' = Null

\* ------------------------------------------------------------ checkAnalysisStatus
AttemptCeilingExceeded(a) == a > MAX_STATUS_CHECK_ATTEMPTS

\* (mutation: the pending delay without its cap)
PendingDelay_NoCap(a) == 2000 + a * 100
PendingDelay(a) == Min(2000 + a * 100, 5000)
\* (mutation: the processing delay with the step of the pending delay)
ProcessingDelay_PendingStep(a) == Min(1000 + a * 100, 3000)
ProcessingDelay(a) == Min(1000 + a * 50, 3000)
ErrorRetryDelay == 5000

\* (mutation: the ceiling test off by one)
ErrorCeilingReached_OffByOne(e) == ~(e <= MAX_CONSECUTIVE_ERRORS)
ErrorCeilingReached(e) == ~(e < MAX_CONSECUTIVE_ERRORS)

\* (mutation: no fallback for a payload without error text)
FailedMessage_NoFallback(err) == ErrPrefix \o err
FailedMessage(err) == ErrPrefix \o (IF err = "" THEN MsgGenericError ELSE err)

\* (mutation: no guard on currentJobId)
checkAnalysisStatus_NoGuard(jobId, tmrs, cs, hit) ==
    /\ statusCheckAttempts' = statusCheckAttempts + 1
    /\ IF AttemptCeilingExceeded(statusCheckAttempts + 1)
       THEN /\ statusMessage' = MsgTooMany
            /\ timers' = tmrs
            /\ timerDelay' = Restrict(timerDelay, tmrs)
            /\ calls' = cs
            /\ ceilingHit' = TRUE
            /\ UNCHANGED statusCheckTimer
       ELSE /\ ClearStatusCheckTimer(tmrs)
            /\ calls' = Add(cs, Call("checkAnalysisStatus", "status", jobId, Null))
            /\ ceilingHit' = hit
            /\ UNCHANGED statusMessage

\* The synchronous part of checkAnalysisStatus, up to `await fetch(status)`.
\* jobId is currentJobId at the call, tmrs and cs the pending timers and the
\* suspended activations at the call, hit the history flag at the call.
checkAnalysisStatus(jobId, tmrs, cs, hit) ==
    IF jobId = Null
    THEN /\ timers' = tmrs
         /\ timerDelay' = Restrict(timerDelay, tmrs)
         /\ calls' = cs
         /\ ceilingHit' = hit
         /\ UNCHANGED <<statusCheckAttempts, statusCheckTimer, statusMessage>>
    ELSE /\ statusCheckAttempts' = statusCheckAttempts + 1
         /\ IF AttemptCeilingExceeded(statusCheckAttempts + 1)
            THEN /\ statusMessage' = MsgTooMany
                 /\ timers' = tmrs
                 /\ timerDelay' = Restrict(timerDelay, tmrs)
                 /\ calls' = cs
                 /\ ceilingHit' = TRUE
                 /\ UNCHANGED statusCheckTimer
            ELSE /\ ClearStatusCheckTimer(tmrs)
                 /\ calls' = Add(cs, Call("checkAnalysisStatus", "status", jobId, Null))
                 /\ ceilingHit' = hit
                 /\ UNCHANGED statusMessage

\* A timer fires: the event loop calls checkAnalysisStatus.  The handle in
\* statusCheckTimer is not cleared by the firing.
TimerFire(t) ==
    /\ UNCHANGED errorStreak
    /\ alertShown' = ""
    /\ UNCHANGED spaVars
    /\ t \in timers
    /\ checkAnalysisStatus(currentJobId, timers \ {t}, calls, ceilingHit)
    /\ UNCHANGED <<currentFileId, currentJobId, statusCheckErrorCount>>
    /\ UNCHANGED uiVars

\* status response: data.status === 'pending'
StatusPending(c) ==
    /\ c \in Waiting("status")
    /\ errorStreak' = 0
    /\ alertShown' = ""
    /\ UNCHANGED spaVars
    /\ statusMessage' = MsgPending
    /\ SetTimeout(PendingDelay(statusCheckAttempts))
    /\ calls' = Remove(calls, c)
    /\ UNCHANGED <<currentFileId, currentJobId, statusCheckAttempts, statusCheckErrorCount,
                   ceilingHit>>
    /\ UNCHANGED uiVars

\* status response: data.status === 'processing'
StatusProcessing(c) ==
    /\ c \in Waiting("status")
    /\ errorStreak' = 0
    /\ alertShown' = ""
    /\ UNCHANGED spaVars
    /\ statusMessage' = MsgProcessing
    /\ SetTimeout(ProcessingDelay(statusCheckAttempts))
    /\ calls' = Remove(calls, c)
    /\ UNCHANGED <<currentFileId, currentJobId, statusCheckAttempts, statusCheckErrorCount,
                   ceilingHit>>
    /\ UNCHANGED uiVars

\* status response: data.status === 'completed'.  loadAnalysisResults returns
\* at once when there is no current file, and the counter is reset; otherwise
\* the activation is suspended on the results request.
StatusCompleted(c) ==
    /\ c \in Waiting("status")
    /\ errorStreak' = 0
    /\ alertShown' = ""
    /\ UNCHANGED spaVars
    /\ statusMessage' = MsgCompleted
    /\ IF currentFileId = Null
       THEN /\ calls' = Remove(calls, c)
            /\ statusCheckAttempts' = 0
       ELSE /\ calls' = Replace(calls, c,
                           Call("checkAnalysisStatus", "results", c.job, currentFileId))
            /\ UNCHANGED statusCheckAttempts
    /\ UNCHANGED <<currentFileId, currentJobId, statusCheckTimer, statusCheckErrorCount,
                   timers, timerDelay, ceilingHit>>
    /\ UNCHANGED uiVars

\* status response: data.status === 'failed'
StatusFailed(c, err) ==
    /\ c \in Waiting("status")
    /\ errorStreak' = 0
    /\ alertShown' = ""
    /\ UNCHANGED spaVars
    /\ retryButtons < MaxRetryButtons
    /\ statusMessage' = FailedMessage(err)
    /\ statusCheckAttempts' = 0
    /\ retryButtons' = retryButtons + 1
    /\ calls' = Remove(calls, c)
    /\ UNCHANGED <<currentFileId, currentJobId, statusCheckTimer, statusCheckErrorCount,
                   timers, timerDelay, ceilingHit>>
    /\ UNCHANGED <<sections, analyzeBtnDisabled, uploadBtnDisabled, listed>>

\* (mutation: an unrecognised status is treated as terminal and resets the counter)
StatusUnknown_ResetsAttempts(c) ==
    /\ c \in Waiting("status")
    /\ errorStreak' = 0
    /\ alertShown' = ""
    /\ UNCHANGED spaVars
    /\ calls' = Remove(calls, c)
    /\ statusCheckAttempts' = 0
    /\ UNCHANGED <<currentFileId, currentJobId, statusCheckTimer, statusCheckErrorCount,
                   timers, timerDelay, statusMessage, ceilingHit>>
    /\ UNCHANGED uiVars

\* (mutation: an unrecognised status is handled like pending)
StatusUnknown_Reschedules(c) == StatusPending(c)

\* status response with any other status: no branch is taken
StatusUnknown(c) ==
    /\ c \in Waiting("status")
    /\ errorStreak' = 0
    /\ alertShown' = ""
    /\ UNCHANGED spaVars
    /\ calls' = Remove(calls, c)
    /\ UNCHANGED <<currentFileId, currentJobId>>
    /\ UNCHANGED pollVars
    /\ UNCHANGED uiVars

\* The catch block: fetch rejected, response.ok false, or response.json() rejected.
StatusError(c, kind) ==
    LET count == (IF statusCheckErrorCount = Undefined THEN 0 ELSE statusCheckErrorCount) + 1
    IN
    /\ c \in Waiting("status")
    /\ errorStreak' = Min(errorStreak + 1, MAX_CONSECUTIVE_ERRORS)
    /\ alertShown' = ""
    /\ UNCHANGED spaVars
    /\ calls' = Remove(calls, c)
    /\ IF ~ErrorCeilingReached(count)
       THEN /\ statusMessage' = ErrPrefix \o StatusErrorText(kind)
            /\ statusCheckErrorCount' = count
            /\ SetTimeout(ErrorRetryDelay)
            /\ UNCHANGED statusCheckAttempts
       ELSE /\ statusMessage' = (ErrPrefix \o StatusErrorText(kind)) \o NoteStopped
            /\ statusCheckAttempts' = 0
            /\ statusCheckErrorCount' = 0
            /\ UNCHANGED <<statusCheckTimer, timers, timerDelay>>
    /\ UNCHANGED <<currentFileId, currentJobId, ceilingHit>>
    /\ UNCHANGED uiVars

\* ------------------------------------------------------------ resetAnalysisState
\* Clears the timer behind the stored handle and zeroes the counters; the
\* error counter stays undefined when it was never used.
resetAnalysisState ==
    /\ ClearStatusCheckTimer(timers)
    /\ statusCheckAttempts' = 0
    /\ statusCheckErrorCount' =
           IF statusCheckErrorCount = Undefined THEN Undefined ELSE 0
    /\ statusMessage' = MsgInit
    /\ ceilingHit' = FALSE

\* ------------------------------------------------------------ loadAnalysisResults, loadRecentFiles
\* (mutation: the attempt counter is not reset after the results are loaded)
AfterLoadAnalysisResults_NoReset(c) == UNCHANGED statusCheckAttempts

\* What the caller of loadAnalysisResults does once it has returned:
\* checkAnalysisStatus resets the attempt counter, viewFileResults returns.
AfterLoadAnalysisResults(c) ==
    IF c.fn = "checkAnalysisStatus"
    THEN statusCheckAttempts' = 0
    ELSE UNCHANGED statusCheckAttempts

\* results response ok: the results are rendered, the results section is
\* shown, and loadRecentFiles issues its request.
ResultsOk(c) ==
    /\ UNCHANGED errorStreak
    /\ alertShown' = ""
    /\ UNCHANGED spaVars
    /\ c \in Waiting("results")
    /\ sections' = (sections \ {"progress"}) \cup {"results"}
    /\ calls' = Replace(calls, c, [c EXCEPT !.pc = "files"])
    /\ UNCHANGED <<currentFileId, currentJobId>>
    /\ UNCHANGED pollVars
    /\ UNCHANGED <<retryButtons, analyzeBtnDisabled, uploadBtnDisabled, listed>>

\* results request failed (or rendering threw): the catch block of
\* loadAnalysisResults shows the error and the function returns.
ResultsFail(c) ==
    /\ UNCHANGED errorStreak
    /\ alertShown' = ""
    /\ UNCHANGED spaVars
    /\ c \in Waiting("results")
    /\ statusMessage' = ErrPrefix \o ResultsErrorText
    /\ AfterLoadAnalysisResults(c)
    /\ calls' = Remove(calls, c)
    /\ UNCHANGED <<currentFileId, currentJobId, statusCheckTimer, statusCheckErrorCount,
                   timers, timerDelay, ceilingHit>>
    /\ UNCHANGED uiVars

\* What runs once loadRecentFiles has returned, by the function that awaited
\* it: loadAnalysisResults returns to its caller; deleteFile resets the page
\* when the deleted file is the current one.
AfterLoadRecentFiles(c) ==
    IF c.fn = "deleteFile" /\ c.file = currentFileId
    THEN /\ resetAnalysisState
         /\ currentFileId' = Null
         /\ currentJobId' = Null
         /\ sections' = {"upload"}
         /\ calls' = MarkStale(Remove(calls, c))
    ELSE /\ IF c.fn \in {"checkAnalysisStatus", "viewFileResults"}
            THEN AfterLoadAnalysisResults(c)
            ELSE UNCHANGED statusCheckAttempts
         /\ calls' = Remove(calls, c)
         /\ UNCHANGED <<currentFileId, currentJobId, statusCheckTimer,
                        statusCheckErrorCount, timers, timerDelay, statusMessage,
                        sections, ceilingHit>>

\* file-list response ok: the table is rebuilt from the list received
FilesOk(c, list) ==
    /\ UNCHANGED errorStreak
    /\ alertShown' = ""
    /\ UNCHANGED spaVars
    /\ c \in Waiting("files")
    /\ listed' = list
    /\ AfterLoadRecentFiles(c)
    /\ UNCHANGED <<retryButtons, analyzeBtnDisabled, uploadBtnDisabled>>

\* file-list request failed: the table is left as it is
FilesFail(c) ==
    /\ UNCHANGED errorStreak
    /\ alertShown' = ""
    /\ UNCHANGED spaVars
    /\ c \in Waiting("files")
    /\ AfterLoadRecentFiles(c)
    /\ UNCHANGED <<retryButtons, analyzeBtnDisabled, uploadBtnDisabled, listed>>

\* ------------------------------------------------------------ upload
UploadSubmit ==
    /\ UNCHANGED errorStreak
    /\ alertShown' = ""
    /\ UNCHANGED spaVars
    /\ "upload" \in sections
    /\ ~uploadBtnDisabled
    /\ uploadBtnDisabled' = TRUE
    /\ calls' = Add(calls, Call("uploadSubmit", "upload", Null, Null))
    /\ UNCHANGED <<currentFileId, currentJobId>>
    /\ UNCHANGED pollVars
    /\ UNCHANGED <<retryButtons, sections, analyzeBtnDisabled, listed>>

\* submit with no file selected: alert, nothing else
UploadSubmitNoFile ==
    /\ "upload" \in sections
    /\ alertShown' = AlertNoFile
    /\ UNCHANGED spaVars
    /\ UNCHANGED <<currentFileId, currentJobId, calls, errorStreak>>
    /\ UNCHANGED pollVars
    /\ UNCHANGED uiVars

UploadOk(c, f) ==
    /\ UNCHANGED errorStreak
    /\ alertShown' = ""
    /\ UNCHANGED spaVars
    /\ c \in Waiting("upload")
    /\ currentFileId' = f
    /\ sections' = (sections \ {"upload"}) \cup {"analysis"}
    /\ uploadBtnDisabled' = FALSE
    /\ calls' = Remove(calls, c)
    /\ UNCHANGED currentJobId
    /\ UNCHANGED pollVars
    /\ UNCHANGED <<retryButtons, analyzeBtnDisabled, listed>>

UploadFail(c) ==
    /\ UNCHANGED errorStreak
    /\ alertShown' = AlertUploadError
    /\ UNCHANGED spaVars
    /\ c \in Waiting("upload")
    /\ uploadBtnDisabled' = FALSE
    /\ calls' = Remove(calls, c)
    /\ UNCHANGED <<currentFileId, currentJobId>>
    /\ UNCHANGED pollVars
    /\ UNCHANGED <<retryButtons, sections, analyzeBtnDisabled, listed>>

\* ------------------------------------------------------------ analysis start
AnalyzeClick ==
    /\ UNCHANGED errorStreak
    /\ alertShown' = ""
    /\ UNCHANGED spaVars
    /\ "analysis" \in sections
    /\ ~analyzeBtnDisabled
    /\ currentFileId # Null
    /\ analyzeBtnDisabled' = TRUE
    /\ calls' = Add(calls, Call("analyzeClick", "start", Null, currentFileId))
    /\ UNCHANGED <<currentFileId, currentJobId>>
    /\ UNCHANGED pollVars
    /\ UNCHANGED <<retryButtons, sections, uploadBtnDisabled, listed>>

\* start response ok: the job id is stored, the progress section is shown and
\* checkAnalysisStatus is called.
StartOk(c, j) ==
    /\ UNCHANGED errorStreak
    /\ alertShown' = ""
    /\ UNCHANGED spaVars
    /\ c \in Waiting("start")
    /\ currentJobId' = j
    /\ sections' = (sections \ {"analysis"}) \cup {"progress"}
    /\ checkAnalysisStatus(j, timers, Remove(calls, c), FALSE)
    /\ UNCHANGED <<currentFileId, statusCheckErrorCount>>
    /\ UNCHANGED <<retryButtons, analyzeBtnDisabled, uploadBtnDisabled, listed>>

\* (mutation: the analyze button is not enabled again after a failed start)
StartFail_ButtonStaysDisabled(c) ==
    /\ UNCHANGED errorStreak
    /\ alertShown' = AlertStartError
    /\ UNCHANGED spaVars
    /\ c \in Waiting("start")
    /\ calls' = Remove(calls, c)
    /\ UNCHANGED <<currentFileId, currentJobId>>
    /\ UNCHANGED pollVars
    /\ UNCHANGED uiVars

\* start request failed: alert, and the analyze button is enabled again
StartFail(c) ==
    /\ UNCHANGED errorStreak
    /\ alertShown' = AlertStartError
    /\ UNCHANGED spaVars
    /\ c \in Waiting("start")
    /\ analyzeBtnDisabled' = FALSE
    /\ calls' = Remove(calls, c)
    /\ UNCHANGED <<currentFileId, currentJobId>>
    /\ UNCHANGED pollVars
    /\ UNCHANGED <<retryButtons, sections, uploadBtnDisabled, listed>>

\* retryButton.onclick, for any of the retry buttons in the progress section
RetryClick ==
    /\ UNCHANGED errorStreak
    /\ alertShown' = ""
    /\ UNCHANGED spaVars
    /\ "progress" \in sections
    /\ retryButtons > 0
    /\ sections' = (sections \ {"progress"}) \cup {"analysis"}
    /\ analyzeBtnDisabled' = FALSE
    /\ UNCHANGED <<currentFileId, currentJobId, calls>>
    /\ UNCHANGED pollVars
    /\ UNCHANGED <<retryButtons, uploadBtnDisabled, listed>>

\* ------------------------------------------------------------ view, delete
\* viewFileResults(fileId), up to the results request of loadAnalysisResults
ViewClick(f) ==
    /\ UNCHANGED errorStreak
    /\ alertShown' = ""
    /\ UNCHANGED spaVars
    /\ f \in listed
    /\ resetAnalysisState
    /\ currentFileId' = f
    /\ sections' = {}
    /\ calls' = Add(MarkStale(calls), Call("viewFileResults", "results", Null, f))
    /\ UNCHANGED currentJobId
    /\ UNCHANGED <<retryButtons, analyzeBtnDisabled, uploadBtnDisabled, listed>>

\* deleteFile(fileId), confirmed, up to the DELETE request
DeleteClick(f) ==
    /\ UNCHANGED errorStreak
    /\ alertShown' = ""
    /\ UNCHANGED spaVars
    /\ f \in listed
    /\ calls' = Add(calls, Call("deleteFile", "delete", Null, f))
    /\ UNCHANGED <<currentFileId, currentJobId>>
    /\ UNCHANGED pollVars
    /\ UNCHANGED uiVars

\* DELETE ok: loadRecentFiles issues its request
DeleteOk(c) ==
    /\ UNCHANGED errorStreak
    /\ alertShown' = ""
    /\ UNCHANGED spaVars
    /\ c \in Waiting("delete")
    /\ calls' = Replace(calls, c, [c EXCEPT !.pc = "files"])
    /\ UNCHANGED <<currentFileId, currentJobId>>
    /\ UNCHANGED pollVars
    /\ UNCHANGED uiVars

\* DELETE failed: alert, nothing else
DeleteFail(c) ==
    /\ UNCHANGED errorStreak
    /\ alertShown' = AlertDeleteError
    /\ UNCHANGED spaVars
    /\ c \in Waiting("delete")
    /\ calls' = Remove(calls, c)
    /\ UNCHANGED <<currentFileId, currentJobId>>
    /\ UNCHANGED pollVars
    /\ UNCHANGED uiVars

\* ------------------------------------------------------------ React application
DashRoom == BagCardinality(dashCalls) < MaxDashCalls

\* A suspended activation of the dashboard: the function (fn), the request
\* it awaits (pc), the job polled, the interval whose callback started it
\* (iv, Null when none) and the pollingInterval value of the render whose
\* closure it runs in (clos).
DashCall(fn, pc, job, iv, clos) ==
    [fn |-> fn, pc |-> pc, job |-> job, iv |-> iv, clos |-> clos]

\* Intervals created so far, and activations that may still create one, stay
\* within MaxIntervals.
IntervalRoom ==
    LET S == {c \in BagToSet(dashCalls) : c.fn \in {"fetchData", "startNewAnalysis"}}
    IN Cardinality(DOMAIN intervalInfo) + BagCardinality([c \in S |-> dashCalls[c]])
         < MaxIntervals

DashWaiting(fn, pc) == {c \in BagToSet(dashCalls) : c.fn = fn /\ c.pc = pc}

\* clearInterval(id): clearing null or an id already cleared does nothing
clearInterval(ivs, id) == ivs \ {id}

\* What the dashboard renders.
DashView ==
    IF dashLoading /\ jobStatus = "none" THEN "spinner"
    ELSE IF jobStatus \in {"pending", "processing"} THEN "status"
    ELSE IF dashError # "" THEN "error"
    ELSE "main"

\* ------------------------------------------------------------ FileUpload wizard
\* a file is dropped on the drop zone of step 0
onDrop ==
    /\ route = "upload"
    /\ activeStep = 0
    /\ ~wizLoading
    /\ wizFile' = TRUE
    /\ wizError' = ""
    /\ UNCHANGED <<activeStep, wizLoading, uploadResult, wizPending, route>>
    /\ UNCHANGED <<vanillaVars, dashVars>>
    /\ UNCHANGED pageVars

\* "Uploader le fichier" (step 0, enabled when a file is selected and nothing
\* is loading): up to the await of the upload request
handleUpload ==
    /\ route = "upload"
    /\ activeStep = 0
    /\ wizFile
    /\ ~wizLoading
    /\ wizLoading' = TRUE
    /\ wizError' = ""
    /\ activeStep' = 1
    /\ wizPending' = "upload"
    /\ UNCHANGED <<wizFile, uploadResult, route>>
    /\ UNCHANGED <<vanillaVars, dashVars>>
    /\ UNCHANGED pageVars

\* the upload succeeded
WizUploadOk(f) ==
    /\ wizPending = "upload"
    /\ uploadResult' = f
    /\ activeStep' = 2
    /\ wizLoading' = FALSE
    /\ wizPending' = "none"
    /\ UNCHANGED <<wizFile, wizError, route>>
    /\ UNCHANGED <<vanillaVars, dashVars>>
    /\ UNCHANGED pageVars

\* the upload failed: catch and finally
WizUploadFail ==
    /\ wizPending = "upload"
    /\ wizError' = ApiErrorMessage
    /\ activeStep' = 0
    /\ wizLoading' = FALSE
    /\ wizPending' = "none"
    /\ UNCHANGED <<wizFile, uploadResult, route>>
    /\ UNCHANGED <<vanillaVars, dashVars>>
    /\ UNCHANGED pageVars

\* "Lancer l'analyse" (step 2, enabled when nothing is loading): up to the
\* await of the start request
handleStartAnalysis ==
    /\ route = "upload"
    /\ activeStep = 2
    /\ ~wizLoading
    /\ uploadResult # Null
    /\ wizLoading' = TRUE
    /\ wizError' = ""
    /\ activeStep' = 3
    /\ wizPending' = "start"
    /\ UNCHANGED <<wizFile, uploadResult, route>>
    /\ UNCHANGED <<vanillaVars, dashVars>>
    /\ UNCHANGED pageVars

\* the start succeeded: navigate to /analysis/<file_id>, where the dashboard
\* mounts and its effect runs fetchData up to the await of the file list
WizStartOk ==
    /\ wizPending = "start"
    /\ wizLoading' = FALSE
    /\ wizPending' = "none"
    /\ route' = "analysis"
    /\ dashLoading' = TRUE
    /\ dashCalls' = Add(dashCalls, DashCall("fetchData", "files", Null, Null, pollingInterval))
    /\ effectClos' = pollingInterval
    /\ UNCHANGED <<wizFile, wizError, activeStep, uploadResult>>
    /\ UNCHANGED <<dashError, activeJobId, jobStatus, pollingInterval, intervals, intervalInfo>>
    /\ UNCHANGED vanillaVars
    /\ UNCHANGED pageVars

\* the start failed: catch sets the error, finally clears loading; the step
\* is left at 3
WizStartFail ==
    /\ wizPending = "start"
    /\ wizError' = ApiErrorMessage
    /\ wizLoading' = FALSE
    /\ wizPending' = "none"
    /\ UNCHANGED <<wizFile, activeStep, uploadResult, route>>
    /\ UNCHANGED <<vanillaVars, dashVars>>
    /\ UNCHANGED pageVars

\* ------------------------------------------------------------ AnomalyDashboard
\* fetchData: the file list arrived and holds the file
FetchDataFilesOk(c) ==
    /\ dashCalls' = Replace(dashCalls, c, [c EXCEPT !.pc = "results"])
    /\ UNCHANGED <<dashLoading, dashError, activeJobId, jobStatus, pollingInterval,
                   intervals, intervalInfo>>
    /\ UNCHANGED <<vanillaVars, wizVars, route, effectClos>>
    /\ UNCHANGED pageVars

\* fetchData: the file list failed or does not hold the file
FetchDataFilesFail(c, msg) ==
    /\ dashCalls' = Remove(dashCalls, c)
    /\ dashError' = msg
    /\ dashLoading' = FALSE
    /\ UNCHANGED <<activeJobId, jobStatus, pollingInterval, intervals, intervalInfo>>
    /\ UNCHANGED <<vanillaVars, wizVars, route, effectClos>>
    /\ UNCHANGED pageVars

\* fetchData: results exist
FetchDataResultsFound(c) ==
    /\ dashCalls' = Remove(dashCalls, c)
    /\ dashLoading' = FALSE
    /\ UNCHANGED <<dashError, activeJobId, jobStatus, pollingInterval, intervals,
                   intervalInfo>>
    /\ UNCHANGED <<vanillaVars, wizVars, route, effectClos>>
    /\ UNCHANGED pageVars

\* fetchData: no results; startNewAnalysis() is called and not awaited, so it
\* runs up to its await (setLoading(true), start request) and fetchData's
\* finally then clears loading
FetchDataResultsMissing(c) ==
    /\ dashCalls' = Replace(dashCalls, c,
                            DashCall("startNewAnalysis", "start", Null, Null, c.clos))
    /\ dashLoading' = FALSE
    /\ UNCHANGED <<dashError, activeJobId, jobStatus, pollingInterval, intervals,
                   intervalInfo>>
    /\ UNCHANGED <<vanillaVars, wizVars, route, effectClos>>
    /\ UNCHANGED pageVars

\* "Relancer l'analyse" in the main view, enabled when nothing is loading:
\* startNewAnalysis of the current render, up to its await
RelancerClick ==
    /\ route = "analysis"
    /\ DashView = "main"
    /\ ~dashLoading
    /\ DashRoom
    /\ IntervalRoom
    /\ dashLoading' = TRUE
    /\ dashCalls' = Add(dashCalls,
                        DashCall("startNewAnalysis", "start", Null, Null, pollingInterval))
    /\ UNCHANGED <<dashError, activeJobId, jobStatus, pollingInterval, intervals,
                   intervalInfo>>
    /\ UNCHANGED <<vanillaVars, wizVars, route, effectClos>>
    /\ UNCHANGED pageVars

\* startNewAnalysis: the start succeeded; an interval is set whose callback
\* calls the pollJobStatus of this activation's render
StartNewAnalysisOk(c, j) ==
    LET i == Cardinality(DOMAIN intervalInfo) + 1 IN
    /\ activeJobId' = j
    /\ jobStatus' = "pending"
    /\ intervals' = intervals \cup {i}
    /\ intervalInfo' = intervalInfo @@ (i :> [job |-> j, clos |-> c.clos])
    /\ pollingInterval' = i
    /\ dashCalls' = Remove(dashCalls, c)
    /\ UNCHANGED <<dashLoading, dashError>>
    /\ UNCHANGED <<vanillaVars, wizVars, route, effectClos>>
    /\ UNCHANGED pageVars

\* startNewAnalysis: the start failed
StartNewAnalysisFail(c) ==
    /\ dashError' = ApiErrorMessage
    /\ dashLoading' = FALSE
    /\ dashCalls' = Remove(dashCalls, c)
    /\ UNCHANGED <<activeJobId, jobStatus, pollingInterval, intervals, intervalInfo>>
    /\ UNCHANGED <<vanillaVars, wizVars, route, effectClos>>
    /\ UNCHANGED pageVars

\* 3000 ms have passed on interval i: its callback calls pollJobStatus, which
\* runs up to the await of the status request
IntervalTick(i) ==
    /\ i \in intervals
    /\ DashRoom
    /\ dashCalls' = Add(dashCalls, DashCall("pollJobStatus", "status",
                                            intervalInfo[i].job, i, intervalInfo[i].clos))
    /\ UNCHANGED <<dashLoading, dashError, activeJobId, jobStatus, pollingInterval,
                   intervals, intervalInfo>>
    /\ UNCHANGED <<vanillaVars, wizVars, route, effectClos>>
    /\ UNCHANGED pageVars

\* pollJobStatus: the status is neither completed nor failed
PollJobStatusContinues(c, st) ==
    /\ jobStatus' = st
    /\ dashCalls' = Remove(dashCalls, c)
    /\ UNCHANGED <<dashLoading, dashError, activeJobId, pollingInterval, intervals,
                   intervalInfo>>
    /\ UNCHANGED <<vanillaVars, wizVars, route, effectClos>>
    /\ UNCHANGED pageVars

\* pollJobStatus: completed; clearInterval gets the pollingInterval of the
\* closure, then the results are requested
PollJobStatusCompleted(c) ==
    /\ jobStatus' = "completed"
    /\ intervals' = clearInterval(intervals, c.clos)
    /\ pollingInterval' = Null
    /\ dashCalls' = Replace(dashCalls, c, [c EXCEPT !.pc = "results"])
    /\ UNCHANGED <<dashLoading, dashError, activeJobId, intervalInfo>>
    /\ UNCHANGED <<vanillaVars, wizVars, route, effectClos>>
    /\ UNCHANGED pageVars

\* pollJobStatus: failed; the throw lands in the catch block
PollJobStatusFailed(c) ==
    /\ jobStatus' = "failed"
    /\ intervals' = clearInterval(intervals, c.clos)
    /\ pollingInterval' = Null
    /\ dashError' = MsgJobFailed
    /\ dashLoading' = FALSE
    /\ dashCalls' = Remove(dashCalls, c)
    /\ UNCHANGED <<activeJobId, intervalInfo>>
    /\ UNCHANGED <<vanillaVars, wizVars, route, effectClos>>
    /\ UNCHANGED pageVars

\* pollJobStatus: the status request failed; catch block
PollJobStatusError(c) ==
    /\ intervals' = clearInterval(intervals, c.clos)
    /\ pollingInterval' = Null
    /\ dashError' = ApiErrorMessage
    /\ dashLoading' = FALSE
    /\ dashCalls' = Remove(dashCalls, c)
    /\ UNCHANGED <<activeJobId, jobStatus, intervalInfo>>
    /\ UNCHANGED <<vanillaVars, wizVars, route, effectClos>>
    /\ UNCHANGED pageVars

\* pollJobStatus: the results arrived
PollResultsOk(c) ==
    /\ dashLoading' = FALSE
    /\ dashCalls' = Remove(dashCalls, c)
    /\ UNCHANGED <<dashError, activeJobId, jobStatus, pollingInterval, intervals,
                   intervalInfo>>
    /\ UNCHANGED <<vanillaVars, wizVars, route, effectClos>>
    /\ UNCHANGED pageVars

\* pollJobStatus: the results request failed; catch block
PollResultsFail(c) ==
    /\ intervals' = clearInterval(intervals, c.clos)
    /\ pollingInterval' = Null
    /\ dashError' = ApiErrorMessage
    /\ dashLoading' = FALSE
    /\ dashCalls' = Remove(dashCalls, c)
    /\ UNCHANGED <<activeJobId, jobStatus, intervalInfo>>
    /\ UNCHANGED <<vanillaVars, wizVars, route, effectClos>>
    /\ UNCHANGED pageVars

\* The route parameter fileId changes while the dashboard is shown: the
\* cleanup of the previous effect runs with the pollingInterval its render
\* had, then the effect runs again in the current render (fetchData up to
\* its first await). The component's state is kept.
DashFileIdChange ==
    /\ route = "analysis"
    /\ DashRoom
    /\ IntervalRoom
    /\ intervals' = IF effectClos # Null THEN clearInterval(intervals, effectClos)
                    ELSE intervals
    /\ effectClos' = pollingInterval
    /\ dashLoading' = TRUE
    /\ dashCalls' = Add(dashCalls, DashCall("fetchData", "files", Null, Null, pollingInterval))
    /\ UNCHANGED <<dashError, activeJobId, jobStatus, pollingInterval, intervalInfo>>
    /\ UNCHANGED <<vanillaVars, wizVars, route>>
    /\ UNCHANGED pageVars

\* The user leaves the dashboard ("Retour", navigate('/files')): the
\* component unmounts and the cleanup of the current effect runs. Intervals
\* that stay set keep ticking and the activations still suspended resume;
\* their state updates go to the unmounted component and are not rendered.
DashUnmount ==
    /\ route = "analysis"
    /\ route' = "files"
    /\ intervals' = IF effectClos # Null THEN clearInterval(intervals, effectClos)
                    ELSE intervals
    /\ UNCHANGED <<dashLoading, dashError, activeJobId, jobStatus, pollingInterval,
                   intervalInfo, dashCalls, effectClos>>
    /\ UNCHANGED <<vanillaVars, wizVars>>
    /\ UNCHANGED pageVars

\* ------------------------------------------------------------ services/api.js
\* A response body: JSON null, a string, or an object whose message field is
\* "" when it is missing or empty (both are falsy in `message || default`).
ApiBodies ==
    {[tag |-> "null", message |-> ""],
     [tag |-> "string", message |-> ""],
     [tag |-> "object", message |-> ""],
     [tag |-> "object", message |-> "Fichier non trouve"]}

HttpErrorStatuses == {400, 404, 500}

\* How axios settles the request: the response data on success; on failure
\* an error with a response (HTTP status outside 2xx), with a request only
\* (no response received), or with neither (the request could not be set up).
ApiOutcomes ==
    {[kind |-> "ok", status |-> 200, data |-> d] : d \in ApiBodies}
    \cup {[kind |-> "response", status |-> st, data |-> d] :
              st \in HttpErrorStatuses, d \in ApiBodies}
    \cup {[kind |-> "request", status |-> 0, data |-> [tag |-> "null", message |-> ""]],
          [kind |-> "config", status |-> 0, data |-> [tag |-> "null", message |-> ""]]}

MsgApiDefault == "Une erreur est survenue"
MsgApiConfig == "Erreur de configuration de la requete"

Resolved(v) == [kind |-> "resolved", value |-> v]
Rejected == [kind |-> "rejected"]
ApiError(st, msg) == [error |-> TRUE, status |-> st, message |-> msg]

\* handleApiError: reading `.message` of a null body raises a TypeError, which
\* leaves the catch block of the calling method and rejects its promise.
handleApiError(err) ==
    IF err.kind = "response"
    THEN IF err.data.tag = "null"
         THEN Rejected
         ELSE Resolved(ApiError(err.status,
                                IF err.data.message # "" THEN err.data.message
                                ELSE MsgApiDefault))
    ELSE IF err.kind = "request"
         THEN Resolved(ApiError(0, ApiErrorMessage))
         ELSE Resolved(ApiError(0, MsgApiConfig))

\* The promise of service method m when its request settles as out.
ServiceResult(m, out) ==
    IF out.kind = "ok"
    THEN IF m = "deleteFile" THEN Resolved([success |-> TRUE]) ELSE Resolved(out.data)
    ELSE handleApiError(out)

\* a service method is called: up to the await of its request
ApiCall(m) ==
    /\ ~apiPending
    /\ apiMethod' = m
    /\ apiPending' = TRUE
    /\ apiResult' = [kind |-> "none"]
    /\ UNCHANGED <<vanillaVars, wizVars, dashVars, route>>
    /\ UNCHANGED <<notifVars, listVars, anomVars>>

\* the request settles and the method returns
ApiSettle(out) ==
    /\ apiPending
    /\ apiPending' = FALSE
    /\ apiResult' = ServiceResult(apiMethod, out)
    /\ UNCHANGED apiMethod
    /\ UNCHANGED <<vanillaVars, wizVars, dashVars, route>>
    /\ UNCHANGED <<notifVars, listVars, anomVars>>

\* ------------------------------------------------------------ AppContext
\* showNotification(message, severity, duration): the notification replaces
\* the one displayed; with duration > 0 a timer is set that closes whatever
\* is displayed when it fires. The notification shown n-th has id n.
showNotification(duration) ==
    /\ notifShown < MaxNotifications
    /\ notifShown' = notifShown + 1
    /\ notification' = [id |-> notifShown + 1, duration |-> duration]
    /\ notifTimers' = IF duration > 0
                      THEN notifTimers \cup {[id |-> notifShown + 1, left |-> duration]}
                      ELSE notifTimers
    /\ UNCHANGED <<vanillaVars, wizVars, dashVars, route>>
    /\ UNCHANGED <<apiVars, listVars, anomVars>>

\* closeNotification
closeNotification ==
    /\ notification # NoNotification
    /\ notification' = NoNotification
    /\ UNCHANGED <<notifTimers, notifShown>>
    /\ UNCHANGED <<vanillaVars, wizVars, dashVars, route>>
    /\ UNCHANGED <<apiVars, listVars, anomVars>>

\* one tick of time passes; no timer is overdue
NotifTick ==
    /\ notifTimers # {}
    /\ \A t \in notifTimers : t.left > 0
    /\ notifTimers' = {[t EXCEPT !.left = @ - 1] : t \in notifTimers}
    /\ UNCHANGED <<notification, notifShown>>
    /\ UNCHANGED <<vanillaVars, wizVars, dashVars, route>>
    /\ UNCHANGED <<apiVars, listVars, anomVars>>

\* the auto-close timer t has run out: setNotification(null)
NotifTimerFire(t) ==
    /\ t \in notifTimers
    /\ t.left = 0
    /\ notifTimers' = notifTimers \ {t}
    /\ notification' = NoNotification
    /\ UNCHANGED notifShown
    /\ UNCHANGED <<vanillaVars, wizVars, dashVars, route>>
    /\ UNCHANGED <<apiVars, listVars, anomVars>>

\* ------------------------------------------------------------ FileList
\* file.filename.toLowerCase().includes(searchTerm.toLowerCase())
Matches(f, term) == term = "" \/ f <= MatchCount
filteredFiles == {f \in files : Matches(f, searchTerm)}

\* Number of the files before f in the filtered list (the list is shown in
\* the order received; ids stand for positions).
Position(f) == Cardinality({g \in filteredFiles : g < f})

\* filteredFiles.slice(page * rowsPerPage, page * rowsPerPage + rowsPerPage)
DisplayedSlice ==
    {f \in filteredFiles :
        Position(f) >= page * rowsPerPage /\ Position(f) < page * rowsPerPage + rowsPerPage}

\* fetchFiles answered: the list replaces files; when it was called by
\* handleDeleteFile the dialog is closed afterwards
FetchFilesOk ==
    /\ listPending = "files"
    /\ files' = serverFiles
    /\ fileToDelete' = Null
    /\ listPending' = "none"
    /\ UNCHANGED <<page, rowsPerPage, searchTerm, serverFiles>>
    /\ UNCHANGED <<vanillaVars, wizVars, dashVars, route>>
    /\ UNCHANGED <<apiVars, notifVars, anomVars>>

\* fetchFiles failed: the error is set, files is kept
FetchFilesFail ==
    /\ listPending = "files"
    /\ fileToDelete' = Null
    /\ listPending' = "none"
    /\ UNCHANGED <<files, page, rowsPerPage, searchTerm, serverFiles>>
    /\ UNCHANGED <<vanillaVars, wizVars, dashVars, route>>
    /\ UNCHANGED <<apiVars, notifVars, anomVars>>

\* "Actualiser", enabled when nothing is loading
RefreshClick ==
    /\ listPending = "none"
    /\ listPending' = "files"
    /\ UNCHANGED <<files, page, rowsPerPage, searchTerm, fileToDelete, serverFiles>>
    /\ UNCHANGED <<vanillaVars, wizVars, dashVars, route>>
    /\ UNCHANGED <<apiVars, notifVars, anomVars>>

\* the pagination arrows: back is disabled on page 0, next on the last page
handleChangePage(newPage) ==
    /\ filteredFiles # {}
    /\ \/ newPage = page - 1 /\ page > 0
       \/ newPage = page + 1 /\ (page + 1) * rowsPerPage < Cardinality(filteredFiles)
    /\ page' = newPage
    /\ UNCHANGED <<files, rowsPerPage, searchTerm, fileToDelete, listPending, serverFiles>>
    /\ UNCHANGED <<vanillaVars, wizVars, dashVars, route>>
    /\ UNCHANGED <<apiVars, notifVars, anomVars>>

handleChangeRowsPerPage(r) ==
    /\ filteredFiles # {}
    /\ rowsPerPage' = r
    /\ page' = 0
    /\ UNCHANGED <<files, searchTerm, fileToDelete, listPending, serverFiles>>
    /\ UNCHANGED <<vanillaVars, wizVars, dashVars, route>>
    /\ UNCHANGED <<apiVars, notifVars, anomVars>>

\* the search field changes
SearchChange(term) ==
    /\ term # searchTerm
    /\ searchTerm' = term
    /\ UNCHANGED <<files, page, rowsPerPage, fileToDelete, listPending, serverFiles>>
    /\ UNCHANGED <<vanillaVars, wizVars, dashVars, route>>
    /\ UNCHANGED <<apiVars, notifVars, anomVars>>

\* the delete icon of a displayed row, then "Supprimer" in the dialog:
\* handleDeleteFile up to the await of the delete request
handleDeleteFile(f) ==
    /\ listPending = "none"
    /\ f \in DisplayedSlice
    /\ fileToDelete' = f
    /\ listPending' = "delete"
    /\ UNCHANGED <<files, page, rowsPerPage, searchTerm, serverFiles>>
    /\ UNCHANGED <<vanillaVars, wizVars, dashVars, route>>
    /\ UNCHANGED <<apiVars, notifVars, anomVars>>

\* the delete succeeded: fetchFiles is called and awaited
ListDeleteOk ==
    /\ listPending = "delete"
    /\ serverFiles' = serverFiles \ {fileToDelete}
    /\ listPending' = "files"
    /\ UNCHANGED <<files, page, rowsPerPage, searchTerm, fileToDelete>>
    /\ UNCHANGED <<vanillaVars, wizVars, dashVars, route>>
    /\ UNCHANGED <<apiVars, notifVars, anomVars>>

\* the delete failed: the error is set and the dialog closed
ListDeleteFail ==
    /\ listPending = "delete"
    /\ fileToDelete' = Null
    /\ listPending' = "none"
    /\ UNCHANGED <<files, page, rowsPerPage, searchTerm, serverFiles>>
    /\ UNCHANGED <<vanillaVars, wizVars, dashVars, route>>
    /\ UNCHANGED <<apiVars, notifVars, anomVars>>

\* ------------------------------------------------------------ processAnomalies
\* (mutation: 0.8 itself is counted as medium)
Severity_StrictHigh(score) ==
    IF score > 80 THEN "high" ELSE IF score >= 50 THEN "medium" ELSE "low"

\* the bucket of a confidence score
Severity(score) ==
    IF score >= 80 THEN "high" ELSE IF score >= 50 THEN "medium" ELSE "low"

\* The body of the forEach callback: the type count is created at 0 when it
\* is missing or 0, then incremented; one severity bucket is incremented.
CountAnomaly(stats, a) ==
    LET old == IF a.type \in DOMAIN stats.byType THEN stats.byType[a.type] ELSE 0
        sev == Severity(a.confidence_score)
    IN [total |-> stats.total,
        byType |-> [t \in DOMAIN stats.byType \cup {a.type} |->
                       IF t = a.type THEN old + 1 ELSE stats.byType[t]],
        bySeverity |-> [stats.bySeverity EXCEPT ![sev] = @ + 1]]

RECURSIVE CountFrom(_, _, _)
CountFrom(stats, list, i) ==
    IF i > Len(list) THEN stats
    ELSE CountFrom(CountAnomaly(stats, list[i]), list, i + 1)

processAnomalies(list) ==
    CountFrom([EmptyStats EXCEPT !.total = Len(list)], list, 1)

\* results arrive: setAnomalies(list), processAnomalies(list)
ResultsArrive(list) ==
    /\ anomalies' = list
    /\ anomalyStats' = processAnomalies(list)
    /\ UNCHANGED <<vanillaVars, wizVars, dashVars, route>>
    /\ UNCHANGED <<apiVars, notifVars, listVars>>

\* ------------------------------------------------------------ specification
\* Every handler of the page, with the poller followed up to MaxPolls attempts.
Next ==
    \/ Room(MaxCalls) /\ UploadSubmit
    \/ UploadSubmitNoFile
    \/ \E c \in Waiting("upload") : (\E f \in Files : UploadOk(c, f)) \/ UploadFail(c)
    \/ Room(MaxCalls) /\ statusCheckAttempts < MaxPolls /\ AnalyzeClick
    \/ \E c \in Waiting("start") : (\E j \in Jobs : StartOk(c, j)) \/ StartFail(c)
    \/ RetryClick
    \/ \E t \in timers : TimerFire(t)
    \/ \E c \in Waiting("status") :
          \/ statusCheckAttempts < MaxPolls /\ StatusPending(c)
          \/ statusCheckAttempts < MaxPolls /\ StatusProcessing(c)
          \/ StatusCompleted(c)
          \/ \E err \in PayloadErrors : StatusFailed(c, err)
          \/ StatusUnknown(c)
          \/ \E kind \in FailKinds : statusCheckAttempts < MaxPolls /\ StatusError(c, kind)
    \/ \E c \in Waiting("results") : ResultsOk(c) \/ ResultsFail(c)
    \/ \E c \in Waiting("files") : (\E list \in SUBSET Files : FilesOk(c, list)) \/ FilesFail(c)
    \/ \E f \in Files : Room(MaxCalls) /\ (ViewClick(f) \/ DeleteClick(f))
    \/ \E c \in Waiting("delete") : DeleteOk(c) \/ DeleteFail(c)

Spec == Init /\ [][Next]_vars

\* The poller followed up to and past the attempt ceiling: an upload, then
\* analysis starts, retries, timer ticks and status responses only.
NextCeiling ==
    \/ Room(MaxCeilingCalls) /\ UploadSubmit
    \/ \E c \in Waiting("upload") : \E f \in Files : UploadOk(c, f)
    \/ /\ Room(MaxCeilingCalls)
       /\ statusCheckAttempts < MAX_STATUS_CHECK_ATTEMPTS + MaxOvershoot
       /\ AnalyzeClick
    \/ \E c \in Waiting("start") : \E j \in Jobs : StartOk(c, j)
    \/ RetryClick
    \/ \E t \in timers : TimerFire(t)
    \/ \E c \in Waiting("status") :
          \/ StatusPending(c)
          \/ \E err \in PayloadErrors : StatusFailed(c, err)
    \/ \E c \in Waiting("files") : FilesFail(c)

SpecCeiling == Init /\ [][NextCeiling]_vars

\* One poll from its start to the attempt ceiling, answered `pending` or
\* `processing` every time.
NextDelays ==
    \/ Room(MaxCalls) /\ UploadSubmit
    \/ \E c \in Waiting("upload") : \E f \in Files : UploadOk(c, f)
    \/ Room(MaxCalls) /\ AnalyzeClick
    \/ \E c \in Waiting("start") : \E j \in Jobs : StartOk(c, j)
    \/ \E t \in timers : TimerFire(t)
    \/ \E c \in Waiting("status") : StatusPending(c) \/ StatusProcessing(c)
    \/ \E c \in Waiting("files") : FilesFail(c)

SpecDelays == Init /\ [][NextDelays]_vars

\* The React application: the wizard, then the dashboard it navigates to.
NextSpa ==
    \/ onDrop
    \/ handleUpload
    \/ \E f \in Files : WizUploadOk(f)
    \/ WizUploadFail
    \/ handleStartAnalysis
    \/ WizStartOk
    \/ WizStartFail
    \/ \E c \in DashWaiting("fetchData", "files") :
          \/ FetchDataFilesOk(c)
          \/ \E msg \in {ApiErrorMessage, MsgFileNotFound} : FetchDataFilesFail(c, msg)
    \/ \E c \in DashWaiting("fetchData", "results") :
          \/ FetchDataResultsFound(c)
          \/ FetchDataResultsMissing(c)
    \/ RelancerClick
    \/ DashFileIdChange
    \/ DashUnmount
    \/ \E c \in DashWaiting("startNewAnalysis", "start") :
          \/ \E j \in Jobs : StartNewAnalysisOk(c, j)
          \/ StartNewAnalysisFail(c)
    \/ \E i \in intervals : IntervalTick(i)
    \/ \E c \in DashWaiting("pollJobStatus", "status") :
          \/ \E st \in {"pending", "processing", "other"} : PollJobStatusContinues(c, st)
          \/ PollJobStatusCompleted(c)
          \/ PollJobStatusFailed(c)
          \/ PollJobStatusError(c)
    \/ \E c \in DashWaiting("pollJobStatus", "results") :
          \/ PollResultsOk(c)
          \/ PollResultsFail(c)

SpecSpa == Init /\ [][NextSpa]_vars

\* The API layer: a method is called, its request settles.
NextApi ==
    \/ \E m \in ApiMethods : ApiCall(m)
    \/ \E out \in ApiOutcomes : ApiSettle(out)

SpecApi == Init /\ [][NextApi]_vars

\* Notifications of the application context.
NextNotify ==
    \/ \E d \in 0..MaxDuration : showNotification(d)
    \/ closeNotification
    \/ NotifTick
    \/ \E t \in notifTimers : NotifTimerFire(t)

SpecNotify == Init /\ [][NextNotify]_vars

\* The file list page.
NextList ==
    \/ FetchFilesOk
    \/ FetchFilesFail
    \/ RefreshClick
    \/ \E newPage \in 0..MaxListFiles : handleChangePage(newPage)
    \/ \E r \in rowsPerPageOptions : handleChangeRowsPerPage(r)
    \/ \E term \in SearchTerms : SearchChange(term)
    \/ \E f \in 1..MaxListFiles : handleDeleteFile(f)
    \/ ListDeleteOk
    \/ ListDeleteFail

SpecList == Init /\ [][NextList]_vars

\* processAnomalies applied to every list of up to MaxAnomalies anomalies:
\* each result received is the previous one with one more anomaly.
NextAnomalies ==
    \E a \in Anomalies :
        /\ Len(anomalies) < MaxAnomalies
        /\ ResultsArrive(Append(anomalies, a))

SpecAnomalies == Init /\ [][NextAnomalies]_vars

\* ------------------------------------------------------------ properties
\* Requests in flight, by kind.
StatusRequests(cs) == Count(cs, "status")
ResultsRequests(cs) == Count(cs, "results")

\* The step is an invocation of checkAnalysisStatus that passed the guard on
\* currentJobId: those are the only steps that increment the attempt counter.
Invocation == statusCheckAttempts' = statusCheckAttempts + 1
BreachingInvocation ==
    Invocation /\ statusCheckAttempts' > MAX_STATUS_CHECK_ATTEMPTS

\* C5: at most one polling timer is pending in every reachable state.
C5_AtMostOneTimer == Cardinality(timers) <= 1

\* C6: at most one status request is in flight in every reachable state, so
\* two executions of checkAnalysisStatus never overlap.
C6_AtMostOneStatusRequest == StatusRequests(calls) <= 1

\* C1: an invocation that takes the attempt counter past 120 issues no status
\* request, schedules no timer and sets the "too many attempts" message, and
\* from then on no status request is issued until resetAnalysisState runs or
\* an analysis is started.
C1_CeilingStopsPolling ==
    [][/\ BreachingInvocation =>
              /\ StatusRequests(calls') <= StatusRequests(calls)
              /\ timers' \subseteq timers
              /\ statusMessage' = MsgTooMany
       /\ (ceilingHit /\ ceilingHit') =>
              StatusRequests(calls') <= StatusRequests(calls)]_vars

\* The step handles a failed status check (the catch block runs).
StatusCheckFails == \E c \in Waiting("status") : \E kind \in FailKinds : StatusError(c, kind)
\* The error counter as the catch block sees it after its increment.
ErrorsAfterIncrement ==
    (IF statusCheckErrorCount = Undefined THEN 0 ELSE statusCheckErrorCount) + 1
StoppedMessages ==
    {"Erreur: " \o StatusErrorText(kind) \o " - Verifications arretees apres trop d'erreurs" :
        kind \in FailKinds}

\* C2: when a status check fails and the error counter, once incremented, is 3
\* or more, no timer is scheduled, the "stopped" note is appended to the error
\* message, and the attempt counter and the error counter are both 0.
C2_ErrorCeilingStops ==
    [][(StatusCheckFails /\ ErrorsAfterIncrement >= 3) =>
            /\ timers' = timers
            /\ statusCheckTimer' = statusCheckTimer
            /\ StatusRequests(calls') < StatusRequests(calls)
            /\ statusMessage' \in StoppedMessages
            /\ statusCheckAttempts' = 0
            /\ statusCheckErrorCount' = 0]_vars

\* C2 witness: polling has just been stopped by the third failure.
C2_Witness ==
    /\ statusMessage \in StoppedMessages
    /\ statusCheckAttempts = 0
    /\ statusCheckErrorCount = 0
    /\ errorStreak = 3

\* Suspended activations of checkAnalysisStatus that are past a `completed`
\* response, inside loadAnalysisResults.
CompletedCalls(cs) ==
    LET S == {c \in BagToSet(cs) : c.fn = "checkAnalysisStatus" /\ c.pc # "status"}
        sum[T \in SUBSET S] ==
            IF T = {} THEN 0
            ELSE LET c == CHOOSE x \in T : TRUE IN cs[c] + sum[T \ {c}]
    IN sum[S]
CompletedArrives == \E c \in Waiting("status") : StatusCompleted(c)
\* The handling of a `completed` response ends: loadAnalysisResults returned.
CompletedEnds ==
    \/ CompletedArrives /\ currentFileId = Null
    \/ CompletedCalls(calls') < CompletedCalls(calls)

\* C3 as claimed: a `completed` response issues exactly one results fetch and
\* schedules no timer; when its handling ends the attempt counter is 0, and
\* the handling issues no status request.
C3_CompletedFetchesOnce ==
    [][/\ CompletedArrives =>
              /\ ResultsRequests(calls') = ResultsRequests(calls) + 1
              /\ timers' = timers
              /\ StatusRequests(calls') = StatusRequests(calls) - 1
       /\ CompletedEnds =>
              /\ statusCheckAttempts' = 0
              /\ timers' \subseteq timers
              /\ StatusRequests(calls') <= StatusRequests(calls)]_vars

\* C3 amended: the results fetch is issued when a current file is set, which
\* is the case unless the file was deleted while the status request was in
\* flight; then no fetch is issued.
C3_CompletedFetchesOnceIfFile ==
    [][/\ CompletedArrives =>
              /\ ResultsRequests(calls') =
                     ResultsRequests(calls) + (IF currentFileId # Null THEN 1 ELSE 0)
              /\ timers' = timers
              /\ StatusRequests(calls') = StatusRequests(calls) - 1
       /\ CompletedEnds =>
              /\ statusCheckAttempts' = 0
              /\ timers' \subseteq timers
              /\ StatusRequests(calls') <= StatusRequests(calls)]_vars

\* C3 witness: the fourth status check of a poll was answered `completed`
\* (after three pending / processing answers): one results fetch is in
\* flight, no timer is pending and no status request is in flight.
C3_Witness ==
    /\ statusMessage = MsgCompleted
    /\ statusCheckAttempts = 4
    /\ ResultsRequests(calls) = 1
    /\ CompletedCalls(calls) = 1
    /\ StatusRequests(calls) = 0
    /\ timers = {}

\* C4: a `failed` response shows the payload's error text, or the generic text
\* when the payload has none, resets the attempt counter, schedules no timer,
\* issues no request, and creates exactly one retry button.
C4_FailedIsTerminal ==
    [][\A err \in PayloadErrors :
          (\E c \in Waiting("status") : StatusFailed(c, err)) =>
              /\ statusMessage' = (IF err = "" THEN "Erreur: Une erreur s'est produite"
                                               ELSE "Erreur: " \o err)
              /\ statusCheckAttempts' = 0
              /\ timers' = timers
              /\ BagCardinality(calls') = BagCardinality(calls) - 1
              /\ retryButtons' = retryButtons + 1]_vars

\* C4 witness: a job has failed with error text "X" after at least one poll.
C4_Witness ==
    /\ statusMessage = "Erreur: X"
    /\ retryButtons = 1
    /\ statusCheckAttempts = 0
    /\ timers = {}
    /\ calls = EmptyBag

\* Status requests in flight that were issued before the last run of
\* resetAnalysisState.
StaleStatusRequests(cs) ==
    LET S == {c \in BagToSet(cs) : c.pc = "status" /\ c.stale}
        sum[T \in SUBSET S] ==
            IF T = {} THEN 0
            ELSE LET c == CHOOSE x \in T : TRUE IN cs[c] + sum[T \ {c}]
    IN sum[S]
\* The response to such a request is handled in this step.
StaleResponseHandled == StaleStatusRequests(calls') < StaleStatusRequests(calls)

\* C7: the response to a status request that was in flight when the state was
\* reset is ignored: it schedules no timer, leaves both counters at 0 and
\* issues neither a status request nor a results fetch.
C7_StaleResponseIgnored ==
    [][StaleResponseHandled =>
          /\ timers' \subseteq timers
          /\ statusCheckAttempts' = 0
          /\ statusCheckErrorCount' \in {Undefined, 0}
          /\ StatusRequests(calls') <= StatusRequests(calls)
          /\ ResultsRequests(calls') <= ResultsRequests(calls)]_vars

\* The step stops the polling for errors: the catch block takes its else branch.
ErrorAbort == StatusCheckFails /\ ErrorsAfterIncrement >= MAX_CONSECUTIVE_ERRORS
\* C8: the error counter counts consecutive failures: polling is stopped for
\* errors only by the third status check in a row that fails, so failures
\* separated by an answered status check do not add up to the ceiling.
C8_ConsecutiveErrorsOnly ==
    [][ErrorAbort => errorStreak' = MAX_CONSECUTIVE_ERRORS]_vars

\* C9: an invocation that takes the attempt counter past the ceiling resets
\* the attempt counter and the error counter to 0 and clears the timer handle.
C9_CeilingDestroysPollState ==
    [][BreachingInvocation =>
          /\ statusCheckAttempts' = 0
          /\ statusCheckErrorCount' \in {Undefined, 0}
          /\ statusCheckTimer' = Null]_vars

\* The steps that run resetAnalysisState.
ResetRuns ==
    \/ \E f \in Files : ViewClick(f)
    \/ \E c \in Waiting("files") :
          /\ c.fn = "deleteFile"
          /\ c.file = currentFileId
          /\ FilesFail(c) \/ \E list \in SUBSET Files : FilesOk(c, list)
StatusFailedArrives ==
    \E c \in Waiting("status") : \E err \in PayloadErrors : StatusFailed(c, err)

\* C10 as claimed: the attempt counter decreases only to 0, and only when the
\* handling of a `completed` response ends, on a `failed` response, or when
\* resetAnalysisState runs.
C10_AttemptsResetOnlyOnTerminal ==
    [][statusCheckAttempts' < statusCheckAttempts =>
          /\ statusCheckAttempts' = 0
          /\ CompletedEnds \/ StatusFailedArrives \/ ResetRuns]_vars

\* C10 amended: the same, with the stop after 3 failed status checks as the
\* fourth transition that resets the counter.
C10_AttemptsResetOnlyOnTerminalOrErrors ==
    [][statusCheckAttempts' < statusCheckAttempts =>
          /\ statusCheckAttempts' = 0
          /\ CompletedEnds \/ StatusFailedArrives \/ ResetRuns \/ ErrorAbort]_vars

\* C10 witness: the counter has just been reset by the stop after 3 failures.
C10_Witness ==
    /\ statusMessage \in StoppedMessages
    /\ statusCheckAttempts = 0
    /\ timers = {}
    /\ StatusRequests(calls) = 0

\* C11: resetAnalysisState, from any reachable state, leaves no timer pending
\* and the handle null, the attempt counter at 0 and the error counter at 0
\* (or never used).
C11_ResetLeavesNothingPending ==
    [][ResetRuns =>
          /\ timers' = {}
          /\ statusCheckTimer' = Null
          /\ statusCheckAttempts' = 0
          /\ statusCheckErrorCount' \in {Undefined, 0}]_vars

\* The step is viewFileResults, up to its results request.
ViewSwitch == \E f \in Files : ViewClick(f)

\* C12: when the viewed file is switched while a timer is pending and the
\* attempt counter is above 0, the step that issues the new view's results
\* request leaves no timer pending (so none fires afterwards) and the attempt
\* counter at 0.
C12_ViewSwitchCancelsTimer ==
    [][(ViewSwitch /\ timers # {} /\ statusCheckAttempts > 0) =>
          /\ timers' = {}
          /\ statusCheckAttempts' = 0
          /\ ResultsRequests(calls') = ResultsRequests(calls) + 1]_vars

\* The step issues a status request.
StatusRequestIssued == StatusRequests(calls') > StatusRequests(calls)
\* The step ends with the poller at rest: no timer pending, no status request
\* in flight.
PollingStopped == timers' = {} /\ StatusRequests(calls') = 0

\* C13: a poll issues at most 120 status requests and then stops.  The poller
\* counts its requests in the attempt counter, so the bound is stated on it:
\* every status request takes one attempt and is issued at an attempt count of
\* at most 120, and the counter is set back, other than by
\* resetAnalysisState, only when the polling has stopped, so that no poll
\* goes on with a restarted count.
C13_AtMost120Requests ==
    [][/\ StatusRequestIssued =>
              /\ statusCheckAttempts' = statusCheckAttempts + 1
              /\ statusCheckAttempts' <= 120
       /\ (statusCheckAttempts' < statusCheckAttempts /\ ~ResetRuns) =>
              PollingStopped]_vars

\* The step schedules exactly one timer, with the given delay.
OneTimerScheduled(delay) ==
    /\ timers \subseteq timers'
    /\ Cardinality(timers' \ timers) = 1
    /\ \A t \in timers' \ timers : timerDelay'[t] = delay /\ statusCheckTimer' = t

\* C14: a failed status check that leaves the error counter below 3 schedules
\* exactly one retry, 5000 ms later; in a run of failures the first and the
\* second are retried and the third is not, so that exactly 3 status requests
\* are issued and a 4th never is.
C14_RetryAfter5000UntilThird ==
    [][StatusCheckFails =>
          /\ ErrorsAfterIncrement < 3 => OneTimerScheduled(5000)
          /\ errorStreak' < 3 => OneTimerScheduled(5000)
          /\ ErrorsAfterIncrement >= 3 => (timers' = timers /\ ~StatusRequestIssued)]_vars

\* The step handles a status check that failed in the given way.
StatusCheckFailsBy(kind) == \E c \in Waiting("status") : StatusError(c, kind)
\* The step handles a status payload that was parsed but carries none of the
\* four statuses (a missing or unknown `status` field).
PayloadWithoutStatus == \E c \in Waiting("status") : StatusUnknown(c)
\* The step takes the error path: the error counter is incremented, and below
\* the ceiling the check is retried 5000 ms later, else the polling is stopped
\* and the counters are reset.
ErrorPathTaken ==
    /\ statusMessage' \notin {MsgPending, MsgProcessing}
    /\ IF ErrorsAfterIncrement < 3
       THEN /\ statusCheckErrorCount' = ErrorsAfterIncrement
            /\ OneTimerScheduled(5000)
       ELSE /\ statusCheckErrorCount' = 0
            /\ statusCheckAttempts' = 0
            /\ timers' = timers

\* C15: an HTTP non-success status, a network failure and a malformed status
\* payload (one that cannot be parsed, or one without a known status) all take
\* the error path.
C15_FailuresHandledAlike ==
    [][(\/ StatusCheckFailsBy("http")
        \/ StatusCheckFailsBy("network")
        \/ StatusCheckFailsBy("malformed")
        \/ PayloadWithoutStatus) => ErrorPathTaken]_vars

\* The delay of the timer the step schedules is d.
ScheduledDelayIs(d) == \E t \in timers' \ timers : timerDelay'[t] = d
PendingArrives == \E c \in Waiting("status") : StatusPending(c)
ProcessingArrives == \E c \in Waiting("status") : StatusProcessing(c)

\* C16: the delay scheduled after a `pending` response at attempt count a is
\* min(2000 + 100 a, 5000) ms; over a in 1..120 it never decreases and never
\* exceeds 5000 ms.
C16_PendingDelay ==
    [][PendingArrives =>
          /\ ScheduledDelayIs(IF 2000 + 100 * statusCheckAttempts <= 5000
                              THEN 2000 + 100 * statusCheckAttempts ELSE 5000)
          /\ \A t \in timers' \ timers : timerDelay'[t] <= 5000
          /\ \A a \in 1..119 : PendingDelay(a) <= PendingDelay(a + 1)
          /\ \A a \in 1..120 : PendingDelay(a) <= 5000]_vars

\* C16 witness: the 120th status request was answered `pending` and the retry
\* is scheduled at the cap.
C16_Witness ==
    /\ statusMessage = MsgPending
    /\ statusCheckAttempts = 120
    /\ \E t \in timers : timerDelay[t] = 5000

\* C17: the delay scheduled after a `processing` response at attempt count a
\* is min(1000 + 50 a, 3000) ms; over a in 1..120 it never decreases and never
\* exceeds 3000 ms.
C17_ProcessingDelay ==
    [][ProcessingArrives =>
          /\ ScheduledDelayIs(IF 1000 + 50 * statusCheckAttempts <= 3000
                              THEN 1000 + 50 * statusCheckAttempts ELSE 3000)
          /\ \A t \in timers' \ timers : timerDelay'[t] <= 3000
          /\ \A a \in 1..119 : ProcessingDelay(a) <= ProcessingDelay(a + 1)
          /\ \A a \in 1..120 : ProcessingDelay(a) <= 3000]_vars

\* C17 witness: the 120th status request was answered `processing` and the
\* retry is scheduled at the cap.
C17_Witness ==
    /\ statusMessage = MsgProcessing
    /\ statusCheckAttempts = 120
    /\ \E t \in timers : timerDelay[t] = 3000

UploadFails == \E c \in Waiting("upload") : UploadFail(c)
StartFails == \E c \in Waiting("start") : StartFail(c)
\* The step leaves the poll state as it is and issues no status request.
PollStateUntouched ==
    /\ UNCHANGED <<currentJobId, statusCheckTimer, timers, statusCheckAttempts,
                   statusCheckErrorCount>>
    /\ ~StatusRequestIssued

\* C19: when the upload request or the analysis-start request fails, an error
\* is shown, the poll state is left as it is (job id, timers, counters, no
\* status request), and the button that triggered the request is enabled.
C19_FailedRequestLeavesPollState ==
    [][/\ UploadFails =>
              /\ alertShown' \in {"Erreur: Erreur lors de l'upload: 500"}
              /\ PollStateUntouched
              /\ uploadBtnDisabled' = FALSE
       /\ StartFails =>
              /\ alertShown' \in {"Erreur: Erreur lors du lancement de l'analyse: 500"}
              /\ PollStateUntouched
              /\ analyzeBtnDisabled' = FALSE]_vars

\* C19 witness: the analysis start has just failed: the alert was shown, the
\* analysis section offers the enabled button, and no job is set.
C19_Witness ==
    /\ alertShown = AlertStartError
    /\ "analysis" \in sections
    /\ ~analyzeBtnDisabled
    /\ currentJobId = Null
    /\ timers = {}

\* The step handles the answer to a status poll that ends the polling: the
\* status is completed or failed, or the request failed.
PollEnds(c) == PollJobStatusCompleted(c) \/ PollJobStatusFailed(c) \/ PollJobStatusError(c)

\* The job of interval i is the active job and its last status was terminal.
JobDone(i) ==
    /\ intervalInfo[i].job = activeJobId
    /\ jobStatus \in {"completed", "failed"}

\* C18: a status poll that returns completed or failed, or that fails, stops
\* the interval that issued it, and no status request is issued for a job
\* whose status was completed or failed.
C18_TerminalPollStopsInterval ==
    [][/\ \A c \in DashWaiting("pollJobStatus", "status") :
              PollEnds(c) => c.iv \notin intervals'
       /\ \A i \in intervals : IntervalTick(i) => ~JobDone(i)]_vars

\* The wizard shows the step whose button repeats the upload / the start.
UploadControlOffered == activeStep = 0 /\ wizFile /\ ~wizLoading
StartControlOffered == activeStep = 2 /\ uploadResult # Null /\ ~wizLoading

\* C20: after a failed upload or a failed analysis start the error is set,
\* loading is cleared and the wizard shows the step with the button that
\* repeats the failed operation.
C20_FailureLeavesRetryControl ==
    [][/\ WizUploadFail => wizError' # "" /\ ~wizLoading' /\ UploadControlOffered'
       /\ WizStartFail => wizError' # "" /\ ~wizLoading' /\ StartControlOffered']_vars

\* The step runs the cleanup of the dashboard's effect.
CleanupRuns == DashUnmount \/ DashFileIdChange

\* C21: the effect cleanup, at unmount or at a change of fileId, leaves no
\* polling interval active, and no interval issues a status request once the
\* dashboard is left.
C21_CleanupStopsInterval ==
    [][/\ CleanupRuns => intervals' = {}
       /\ \A i \in intervals : IntervalTick(i) => route = "analysis"]_vars

\* C22: at most one polling interval is active in every reachable state.
C22_AtMostOneInterval == Cardinality(intervals) <= 1

\* The step is the analyze handler receiving its job id and calling
\* checkAnalysisStatus: a polling chain starts.
ChainStarts == \E c \in Waiting("start") : \E j \in Jobs : StartOk(c, j)

\* C23: a polling chain started by the analyze action finds the attempt
\* counter at 0 and the error counter at 0 (or not yet defined).
C23_ChainStartsFromZero ==
    [][ChainStarts => /\ statusCheckAttempts = 0
                      /\ statusCheckErrorCount \in {Undefined, 0}]_vars

\* C24: at most one retry button exists in the progress section in every
\* reachable state.
C24_AtMostOneRetryButton == retryButtons <= 1

\* The step is a timer firing while there is no current job.
FiresWithoutJob == currentJobId = Null /\ \E t \in timers : TimerFire(t)

\* The step completes the deletion of the current file.
CurrentFileDeleted ==
    \E c \in Waiting("files") :
        /\ c.fn = "deleteFile"
        /\ c.file = currentFileId
        /\ (FilesFail(c) \/ \E list \in SUBSET Files : FilesOk(c, list))

\* Status requests in cs for job j.
StatusRequestsFor(cs, j) ==
    LET S == {c \in BagToSet(cs) : c.pc = "status" /\ c.job = j}
    IN BagCardinality([c \in S |-> cs[c]])

\* C25: checkAnalysisStatus called with no current job changes no counter,
\* issues no request and sets no timer; the deletion of the current file
\* clears the job id; while the job id is cleared no status request is issued,
\* and a status request is only ever issued for the job that is current.
C25_NoJobNoPolling ==
    [][/\ FiresWithoutJob =>
              /\ UNCHANGED <<statusCheckAttempts, statusCheckErrorCount, calls>>
              /\ timers' \subseteq timers
       /\ CurrentFileDeleted => currentJobId' = Null
       /\ currentJobId' = Null => StatusRequests(calls') <= StatusRequests(calls)
       /\ \A j \in Jobs \cup {Null} :
              StatusRequestsFor(calls', j) > StatusRequestsFor(calls, j) =>
                  j = currentJobId' /\ j # Null]_vars

\* The current file was deleted, a status response that was in flight has
\* set a timer afterwards, and that timer has fired without a request.
C25_Witness ==
    /\ currentJobId = Null
    /\ currentFileId = Null
    /\ statusCheckTimer # Null
    /\ timers = {}
    /\ StatusRequests(calls) = 0

\* The step handles a status payload with an unrecognised status; it sets no
\* timer, changes neither counter, and does not take the error path (no
\* message, no abort).
SilentStop ==
    /\ UNCHANGED <<timers, timerDelay, statusCheckTimer, statusCheckAttempts,
                   statusCheckErrorCount, statusMessage, retryButtons, sections>>
    /\ ~StatusRequestIssued

\* C26 as claimed: an unrecognised status stops the polling silently and the
\* attempt counter it leaves is not 0.
C26_UnknownStatusStopsWithCountNonZero ==
    [][PayloadWithoutStatus => SilentStop /\ statusCheckAttempts' > 0]_vars

\* C26 amended: an unrecognised status stops the polling silently and leaves
\* the attempt counter at the value it has when the response arrives.
C26_UnknownStatusStopsSilently ==
    [][PayloadWithoutStatus => SilentStop]_vars

\* C26 witness: polling has stopped without a message, a retry button or a
\* results fetch, and the attempt counter is above 0.
C26_Witness ==
    /\ "progress" \in sections
    /\ currentJobId # Null
    /\ timers = {}
    /\ calls = EmptyBag
    /\ statusCheckAttempts > 0
    /\ ~ceilingHit
    /\ retryButtons = 0
    /\ statusMessage \notin StoppedMessages

\* C27: every service method resolves: to the response data on success, and
\* on any failure to an object with error = true, the HTTP status (0 when
\* there was no response or the request could not be set up) and a message.
C27_ServiceNeverThrows ==
    [][\A out \in ApiOutcomes :
          ApiSettle(out) =>
              /\ apiResult'.kind = "resolved"
              /\ IF out.kind = "ok"
                 THEN apiResult'.value = out.data
                 ELSE /\ apiResult'.value.error = TRUE
                      /\ apiResult'.value.status = out.status
                      /\ apiResult'.value.message # ""]_vars

\* C28: an auto-close timer that fires closes only the notification that set
\* it: a notification shown later stays displayed.
C28_TimerClosesOwnNotification ==
    [][\A t \in notifTimers :
          NotifTimerFire(t) => notification \in {NoNotification} \/ notification.id = t.id]_vars

\* C29: whenever the filtered list is not empty, the page index addresses an
\* existing page, so the slice displayed is not empty.
C29_PageWithinRange ==
    filteredFiles # {} =>
        /\ page * rowsPerPage < Cardinality(filteredFiles)
        /\ DisplayedSlice # {}

\* Anomalies of the list received that satisfy P, counted by position.
High(a) == a.confidence_score >= 80
Medium(a) == a.confidence_score >= 50 /\ a.confidence_score < 80
Low(a) == a.confidence_score < 50
NumberOf(P(_)) == Cardinality({i \in 1..Len(anomalies) : P(anomalies[i])})
NumberOfType(t) == Cardinality({i \in 1..Len(anomalies) : anomalies[i].type = t})

RECURSIVE SumOver(_, _)
SumOver(f, S) ==
    IF S = {} THEN 0
    ELSE LET x == CHOOSE y \in S : TRUE IN f[x] + SumOver(f, S \ {x})

\* C30: total is the length of the list; every anomaly is counted in exactly
\* one severity bucket (high from 0.8, medium from 0.5 and below 0.8, low
\* otherwise), so the buckets sum to total; every type is counted as often as
\* it occurs, so the type counts sum to total.
C30_StatsAddUp ==
    /\ anomalyStats.total = Len(anomalies)
    /\ anomalyStats.bySeverity.high = NumberOf(High)
    /\ anomalyStats.bySeverity.medium = NumberOf(Medium)
    /\ anomalyStats.bySeverity.low = NumberOf(Low)
    /\ anomalyStats.bySeverity.high + anomalyStats.bySeverity.medium
         + anomalyStats.bySeverity.low = anomalyStats.total
    /\ \A t \in DOMAIN anomalyStats.byType : anomalyStats.byType[t] = NumberOfType(t)
    /\ \A t \in AnomalyTypes : NumberOfType(t) > 0 => t \in DOMAIN anomalyStats.byType
    /\ SumOver(anomalyStats.byType, DOMAIN anomalyStats.byType) = anomalyStats.total

\* C30 witness: a list with both types and one anomaly in every bucket, the
\* high one at exactly 0.8 and the medium one at exactly 0.5.
C30_Witness ==
    /\ Len(anomalies) = 3
    /\ anomalies[1].confidence_score = 80
    /\ anomalies[2].confidence_score = 50
    /\ anomalies[3].confidence_score = 49
    /\ anomalies[1].type # anomalies[2].type
    /\ anomalyStats.bySeverity = [high |-> 1, medium |-> 1, low |-> 1]
    /\ DOMAIN anomalyStats.byType = AnomalyTypes

====
